---- MODULE Spec2Model ----
(***************************************************************************)
(* A model of the Go installer (src/src/main.rs): one sequential program   *)
(* that checks for sudo, maps the host architecture, asks the release API  *)
(* for the first linux archive of that architecture, downloads it to the   *)
(* temporary directory, compares its SHA-256 digest with the API's,        *)
(* replaces /usr/local/go by the archive's contents and removes the        *)
(* downloaded file.  The file system outlives a run, so the model lets the *)
(* program be run again on what the previous run left behind.              *)
(***************************************************************************)
EXTENDS Integers, Sequences, FiniteSets, TLC

VARIABLES
    hostArch,      \* env::consts::ARCH, fixed for the machine
    sudo,          \* whether SUDO_USER is set in this run's environment
    pc,            \* the position of main in this run
    release_info,  \* main's release_info: <<>> before the Resolver returns, <<file>> after
    releases,      \* the catalog parsed at line 73 (kept only by SpecResolver)
    tmp,           \* the temporary directory: file name -> [exists, bytes]
    goDir,         \* /usr/local/go: [exists, files]
    err,           \* the error main returns: [kind, expected, calculated]
    trace,         \* the stages entered and I/O calls made by this run, in order
    runs           \* how many times the program has been started

vars == <<hostArch, sudo, pc, release_info, releases, tmp, goDir, err, trace, runs>>

----------------------------------------------------------------------------
(* Bounds of the model. *)

\* The longest archive, in entries (one model byte per tar entry).
MaxBytes == 2
\* The most releases a catalog holds.
MaxReleases == 2
\* The most files a catalog holds over all its releases.
MaxCatalogFiles == 3
\* How many times the program is started on the same machine.
MaxRuns == 2

----------------------------------------------------------------------------
(* Values. *)

\* Host architectures: the two of the match at lines 38-42 and one other.
HostArchs == {"x86_64", "aarch64", "riscv64"}

\* The tar entries a model byte stands for; byte 0 is a byte no tar reader accepts.
CorruptByte == 0

EntryBytes == {1, 2}

EntryName(b) == IF b = 1 THEN "bin/go" ELSE "VERSION"

\* What /usr/local/go may hold: the archive's entries and a file of an older release.
GoFiles == {"bin/go", "VERSION", "old"}

RECURSIVE SeqsUpTo(_, _)
SeqsUpTo(S, n) ==
    IF n = 0 THEN {<<>>}
    ELSE LET shorter == SeqsUpTo(S, n - 1)
         IN  shorter \cup {Append(s, x) : s \in {t \in shorter : Len(t) = n - 1}, x \in S}

\* Every byte content a server may send or a file may hold.
Contents == SeqsUpTo(EntryBytes \cup {CorruptByte}, MaxBytes)

Prefixes(c) == {SubSeq(c, 1, k) : k \in 0..Len(c)}

\* What a transfer that fails part-way may have written: a prefix of a body.
PartialBodies == UNION {Prefixes(body) : body \in Contents}

NoFile == [exists |-> FALSE, bytes |-> <<>>]

FileOf(c) == [exists |-> TRUE, bytes |-> c]

NoDir == [exists |-> FALSE, files |-> {}]

DirOf(fs) == [exists |-> TRUE, files |-> fs]

NoErr == [kind |-> "none", expected |-> <<>>, calculated |-> <<>>]

Error(k) == [kind |-> k, expected |-> <<>>, calculated |-> <<>>]

----------------------------------------------------------------------------
(* SHA-256 and its hexadecimal rendering.  The digest is cut to one byte,  *)
(* which still tells apart every content of the model: the program only    *)
(* renders the digest and compares the rendering.                          *)

DigestModulus == 256

RECURSIVE Sha256From(_, _)
Sha256From(h, bytes) ==
    IF bytes = <<>> THEN h
    ELSE Sha256From((h * 4 + Head(bytes) + 1) % DigestModulus, Tail(bytes))

Sha256(bytes) == (Sha256From(0, bytes) + 171) % DigestModulus

LowerDigits == <<"0", "1", "2", "3", "4", "5", "6", "7", "8", "9", "a", "b", "c", "d", "e", "f">>

UpperDigits == <<"0", "1", "2", "3", "4", "5", "6", "7", "8", "9", "A", "B", "C", "D", "E", "F">>

\* format!("{:x}", digest): lowercase hexadecimal, two digits a byte.
LowerHex(n) == <<LowerDigits[(n \div 16) + 1], LowerDigits[(n % 16) + 1]>>

UpperHex(n) == <<UpperDigits[(n \div 16) + 1], UpperDigits[(n % 16) + 1]>>

ToLowerChar(ch) ==
    IF \E i \in 1..16 : UpperDigits[i] = ch
    THEN LowerDigits[CHOOSE i \in 1..16 : UpperDigits[i] = ch]
    ELSE ch

\* A hexadecimal string with its letters in lowercase.
ToLower(s) == [i \in DOMAIN s |-> ToLowerChar(s[i])]

----------------------------------------------------------------------------
(* The release catalog. *)

GoFile(fn, o, a, v, h, n, k) ==
    [filename |-> fn, os |-> o, arch |-> a, version |-> v, sha256 |-> h, size |-> n, kind |-> k]

\* The files the API may list: two linux/amd64 archives (the second with its
\* hash in uppercase), two linux/arm64 archives (the second published with a
\* byte no tar reader accepts), a linux/amd64 file of another kind and an
\* archive of another operating system.
FilePool ==
    { GoFile("go1.r1.tar.gz", "linux", "amd64", "go1.r1", LowerHex(Sha256(<<1, 2>>)), 2, "archive"),
      GoFile("go1.r2.tar.gz", "linux", "amd64", "go1.r2", UpperHex(Sha256(<<1>>)), 1, "archive"),
      GoFile("go1.r1.tar.gz", "linux", "arm64", "go1.r1", LowerHex(Sha256(<<2>>)), 1, "archive"),
      GoFile("go1.r2.tar.gz", "linux", "arm64", "go1.r2", LowerHex(Sha256(<<2, 0>>)), 2, "archive"),
      GoFile("go1.r2.tar.gz", "linux", "amd64", "go1.r2", LowerHex(Sha256(<<2, 1>>)), 2, "source"),
      GoFile("go1.r2.tar.gz", "darwin", "arm64", "go1.r2", LowerHex(Sha256(<<1, 1>>)), 2, "archive") }

Filenames == {f.filename : f \in FilePool}

GoRelease(fs) == [files |-> fs]

\* Catalogs of at most r releases holding at most n files in all.
RECURSIVE CatalogsUpTo(_, _)
CatalogsUpTo(r, n) ==
    IF r = 0 THEN {<<>>}
    ELSE {<<>>} \cup
         UNION { { <<GoRelease(fs)>> \o rest : rest \in CatalogsUpTo(r - 1, n - Len(fs)) }
                 : fs \in SeqsUpTo(FilePool, n) }

Catalogs == CatalogsUpTo(MaxReleases, MaxCatalogFiles)

----------------------------------------------------------------------------
(* The Release Resolver: get_latest_go_release, lines 72-84. *)

\* The match of lines 38-42 with a catch-all arm that does not bail.
Supported_any(a) == TRUE

\* Whether the match of lines 38-42 has an arm for the host architecture, and
\* the architecture name of the API it gives.
Supported(a) == a \in {"x86_64", "aarch64"}

OsArch(a) == IF a = "x86_64" THEN "amd64" ELSE "arm64"

\* The closure of line 78 without its test of the kind.
Matches_any_kind(f, arch) == f.os = "linux" /\ f.arch = arch

\* The closure of line 78.
Matches(f, arch) == f.os = "linux" /\ f.arch = arch /\ f.kind = "archive"

\* Iterator::find over one release's files (line 77): <<>> or <<the first match>>.
RECURSIVE Find(_, _)
Find(files, arch) ==
    IF files = <<>> THEN <<>>
    ELSE IF Matches(Head(files), arch) THEN <<Head(files)>>
    ELSE Find(Tail(files), arch)

\* The loop of lines 76-82 over the parsed catalog: <<the file>>, or <<>> for
\* the bail of line 83.
RECURSIVE get_latest_go_release(_, _)
get_latest_go_release(arch, rels) ==
    IF rels = <<>> THEN <<>>
    ELSE LET file == Find(Head(rels).files, arch)
         IN  IF file # <<>> THEN file ELSE get_latest_go_release(arch, Tail(rels))

\* What the Resolver can return for an architecture, over every catalog the
\* API may answer with.
ResolveResults ==
    [a \in {"amd64", "arm64"} |-> {get_latest_go_release(a, c) : c \in Catalogs}]

----------------------------------------------------------------------------
(* The Integrity Verifier: verify_checksum, lines 103-116. *)

\* verify_checksum without the comparison of line 109.
verify_checksum_unchecked(expected_checksum, bytes) == NoErr

\* The error of verify_checksum for the bytes read and the expected hash
\* (NoErr when it returns Ok).
verify_checksum(expected_checksum, bytes) ==
    LET calculated_checksum == LowerHex(Sha256(bytes))
    IN  IF calculated_checksum # expected_checksum
        THEN [kind |-> "IntegrityError", expected |-> expected_checksum,
              calculated |-> calculated_checksum]
        ELSE NoErr

----------------------------------------------------------------------------
(* The Installer: install_go, lines 119-131. *)

\* How many leading bytes of an archive are entries a tar reader accepts.
RECURSIVE ValidLen(_)
ValidLen(bytes) ==
    IF bytes = <<>> \/ Head(bytes) = CorruptByte THEN 0 ELSE 1 + ValidLen(Tail(bytes))

\* /usr/local/go after the first k entries of the archive are unpacked over
\* it: an entry creates the directory and overwrites a file of its name.
Unpacked(dir, bytes, k) ==
    IF k = 0 THEN dir
    ELSE DirOf(dir.files \cup {EntryName(bytes[i]) : i \in 1..k})

\* The outcomes of archive.unpack (line 129) over directory dir: it stops with
\* an I/O error while writing an entry, stops at a byte it cannot read, or
\* unpacks every entry.
UnpackOutcomes(dir, bytes) ==
    LET n == ValidLen(bytes)
    IN  {[kind |-> "IOError", dir |-> Unpacked(dir, bytes, k)] : k \in 0..(n - 1)}
        \cup (IF n < Len(bytes)
              THEN {[kind |-> "ExtractionError", dir |-> Unpacked(dir, bytes, n)]}
              ELSE {})
        \cup (IF n = Len(bytes)
              THEN {[kind |-> "none", dir |-> Unpacked(dir, bytes, n)]}
              ELSE {})

\* install_go without the removal of lines 121-124.
remove_dir_all_skipped(dir) == dir

\* /usr/local/go after fs::remove_dir_all (line 123) returns Ok.
remove_dir_all(dir) == NoDir

\* What fs::remove_dir_all (line 123) may leave when it fails part-way.
PartlyRemoved(dir) == {DirOf(fs) : fs \in SUBSET dir.files}

----------------------------------------------------------------------------
(* main, lines 31-69, one action for each fallible step. *)

Stages == {"Guard", "Resolver", "Downloader", "Verifier", "Installer", "Message", "Cleanup"}

\* An error that is swallowed and the program started over.
Failed_retry(kind, t) ==
    /\ pc' = "start"
    /\ err' = Error(kind)
    /\ trace' = t

\* main returns Err: the run ends with a failure status.
Failed(kind, t) ==
    /\ pc' = "failed"
    /\ err' = Error(kind)
    /\ trace' = t

\* env::temp_dir().join(&release_info.filename), line 50.
tarball_path == release_info[1].filename

\* Lines 32-35 without the SUDO_USER check.
Guard_unchecked ==
    /\ pc = "start"
    /\ pc' = "arch"
    /\ trace' = trace \o <<"Guard">>
    /\ UNCHANGED <<hostArch, sudo, release_info, releases, tmp, goDir, err, runs>>

\* Lines 32-35: the banner and the SUDO_USER check.
Guard ==
    /\ pc = "start"
    /\ IF ~sudo
       THEN Failed("PermissionError", trace \o <<"Guard">>)
       ELSE /\ pc' = "arch"
            /\ trace' = trace \o <<"Guard">>
            /\ UNCHANGED err
    /\ UNCHANGED <<hostArch, sudo, release_info, releases, tmp, goDir, runs>>

\* Lines 38-43: the architecture match.
DetectArch ==
    /\ pc = "arch"
    /\ IF ~Supported(hostArch)
       THEN Failed("UnsupportedPlatformError", trace \o <<"Resolver">>)
       ELSE /\ pc' = "resolve"
            /\ trace' = trace \o <<"Resolver">>
            /\ UNCHANGED err
    /\ UNCHANGED <<hostArch, sudo, release_info, releases, tmp, goDir, runs>>

\* Lines 45-46 once the catalog is parsed: the Resolver's answer.
Resolved(found, t) ==
    IF found = <<>>
    THEN Failed("NotFoundError", t) /\ UNCHANGED release_info
    ELSE /\ release_info' = found
         /\ pc' = "download"
         /\ trace' = t
         /\ UNCHANGED err

\* Line 45, get_latest_go_release: the GET of line 73 fails, its body does not
\* parse, or the catalog it holds is searched.
Resolve ==
    /\ pc = "resolve"
    /\ LET t == trace \o <<"GET metadata">>
       IN  \/ \E kind \in {"NetworkError", "ParseError"} :
                Failed(kind, t) /\ UNCHANGED release_info
           \/ \E found \in ResolveResults[OsArch(hostArch)] : Resolved(found, t)
    /\ UNCHANGED <<hostArch, sudo, releases, tmp, goDir, runs>>

\* Lines 49-51 with the old installation removed before the download.
Download_clearing ==
    /\ pc = "download"
    /\ \E body \in Contents :
         /\ tmp' = [tmp EXCEPT ![tarball_path] = FileOf(body)]
         /\ goDir' = NoDir
         /\ pc' = "verify"
         /\ trace' = trace \o <<"Downloader", "GET archive", "create tmp">>
    /\ UNCHANGED <<hostArch, sudo, release_info, releases, err, runs>>

\* Lines 49-51, download_file: the GET of line 88 fails, File::create of
\* line 95 fails, io::copy of line 96 fails with an io::Error after some bytes
\* of the body (the stream or the disk), or the whole body is written.
Download ==
    /\ pc = "download"
    /\ LET t == trace \o <<"Downloader", "GET archive">>
       IN  \/ \E kind \in {"NetworkError", "IOError"} :
                Failed(kind, t) /\ UNCHANGED tmp
           \/ \E written \in PartialBodies :
                /\ tmp' = [tmp EXCEPT ![tarball_path] = FileOf(written)]
                /\ Failed("IOError", t \o <<"create tmp">>)
           \/ \E body \in Contents :
                /\ tmp' = [tmp EXCEPT ![tarball_path] = FileOf(body)]
                /\ pc' = "verify"
                /\ trace' = t \o <<"create tmp">>
                /\ UNCHANGED err
    /\ UNCHANGED <<hostArch, sudo, release_info, releases, goDir, runs>>

\* Lines 54-55, verify_checksum: the file cannot be read (lines 104, 106), or
\* its digest is compared.
Verify ==
    /\ pc = "verify"
    /\ LET t == trace \o <<"Verifier">>
           e == verify_checksum(release_info[1].sha256, tmp[tarball_path].bytes)
       IN  \/ Failed("IOError", t)
           \/ /\ tmp[tarball_path].exists
              /\ trace' = t \o <<"hash tmp">>
              /\ err' = e
              /\ pc' = IF e = NoErr THEN "install" ELSE "failed"
    /\ UNCHANGED <<hostArch, sudo, release_info, releases, tmp, goDir, runs>>

\* Line 58, install_go: the old directory is removed if it exists (lines
\* 121-124), the archive opened (line 126) and unpacked (line 129).
Install ==
    /\ pc = "install"
    /\ LET t  == trace \o <<"Installer">>
           t2 == IF goDir.exists THEN t \o <<"remove go">> ELSE t
           cleared == IF goDir.exists THEN remove_dir_all(goDir) ELSE goDir
       IN  \/ /\ goDir.exists
              /\ goDir' \in PartlyRemoved(goDir)
              /\ Failed("IOError", t2)
           \/ /\ goDir' = cleared
              /\ Failed("IOError", t2)
           \/ \E out \in UnpackOutcomes(cleared, tmp[tarball_path].bytes) :
                /\ goDir' = out.dir
                /\ IF out.kind = "none"
                   THEN /\ pc' = "message"
                        /\ trace' = t2 \o <<"unpack">>
                        /\ UNCHANGED err
                   ELSE Failed(out.kind, t2 \o <<"unpack">>)
    /\ UNCHANGED <<hostArch, sudo, release_info, releases, tmp, runs>>

\* Lines 59-65 with the printing left out.
Message_silent ==
    /\ pc = "message"
    /\ pc' = "cleanup"
    /\ UNCHANGED <<hostArch, sudo, release_info, releases, tmp, goDir, err, trace, runs>>

\* Lines 59-65: the installed line and the final instructions.
Message ==
    /\ pc = "message"
    /\ pc' = "cleanup"
    /\ trace' = trace \o <<"Message">>
    /\ UNCHANGED <<hostArch, sudo, release_info, releases, tmp, goDir, err, runs>>

\* Lines 67-68 returning Ok(()) without removing the file.
Cleanup_kept ==
    /\ pc = "cleanup"
    /\ pc' = "done"
    /\ trace' = trace \o <<"Cleanup">>
    /\ UNCHANGED <<hostArch, sudo, release_info, releases, tmp, goDir, err, runs>>

\* Lines 67-68: fs::remove_file of the downloaded archive, then Ok(()).
Cleanup ==
    /\ pc = "cleanup"
    /\ LET t == trace \o <<"Cleanup", "remove tmp">>
       IN  \/ Failed("IOError", t) /\ UNCHANGED tmp
           \/ /\ tmp' = [tmp EXCEPT ![tarball_path] = NoFile]
              /\ pc' = "done"
              /\ trace' = t
              /\ UNCHANGED err
    /\ UNCHANGED <<hostArch, sudo, release_info, releases, goDir, runs>>

\* The program is started again on the same machine, with or without sudo.
NewRun ==
    /\ pc \in {"done", "failed"}
    /\ runs < MaxRuns
    /\ runs' = runs + 1
    /\ sudo' \in BOOLEAN
    /\ pc' = "start"
    /\ release_info' = <<>>
    /\ err' = NoErr
    /\ trace' = <<>>
    /\ UNCHANGED <<hostArch, releases, tmp, goDir>>

\* A machine before the first run: any architecture, /usr/local/go absent or
\* holding any files, nothing downloaded yet.
Init ==
    /\ hostArch \in HostArchs
    /\ sudo \in BOOLEAN
    /\ pc = "start"
    /\ release_info = <<>>
    /\ releases = <<>>
    /\ tmp = [fn \in Filenames |-> NoFile]
    /\ goDir \in {NoDir} \cup {DirOf(fs) : fs \in SUBSET GoFiles}
    /\ err = NoErr
    /\ trace = <<>>
    /\ runs = 1

Next ==
    \/ Guard
    \/ DetectArch
    \/ Resolve
    \/ Download
    \/ Verify
    \/ Install
    \/ Message
    \/ Cleanup
    \/ NewRun

Spec == Init /\ [][Next]_vars

\* The process's exit status: 0 from Ok(()), 1 from Err, -1 while it runs.
ExitCode == IF pc = "done" THEN 0 ELSE IF pc = "failed" THEN 1 ELSE -1

----------------------------------------------------------------------------
(* The Resolver on a catalog that is kept: for each supported architecture *)
(* and each catalog, get_latest_go_release is applied to the parsed        *)
(* catalog as at lines 76-83.                                              *)

ResolveCatalog ==
    /\ pc = "resolve"
    /\ Resolved(get_latest_go_release(OsArch(hostArch), releases),
                trace \o <<"GET metadata">>)
    /\ UNCHANGED <<hostArch, sudo, releases, tmp, goDir, runs>>

InitResolver ==
    /\ hostArch \in {a \in HostArchs : Supported(a)}
    /\ sudo = TRUE
    /\ pc = "resolve"
    /\ release_info = <<>>
    /\ releases \in Catalogs
    /\ tmp = [fn \in Filenames |-> NoFile]
    /\ goDir = NoDir
    /\ err = NoErr
    /\ trace = <<"Guard", "Resolver">>
    /\ runs = 1

NextResolver == ResolveCatalog

SpecResolver == InitResolver /\ [][NextResolver]_vars

----------------------------------------------------------------------------
(* What the properties speak of. *)

Range(s) == {s[i] : i \in DOMAIN s}

\* Where event e first stands in the trace (0 when it does not).
IndexOf(e) == IF e \in Range(trace) THEN CHOOSE i \in DOMAIN trace : trace[i] = e /\ \A j \in 1..(i - 1) : trace[j] # e ELSE 0

Count(e) == Cardinality({i \in DOMAIN trace : trace[i] = e})

Before(a, b) == IndexOf(a) > 0 /\ IndexOf(a) < IndexOf(b)

IsPrefix(s, t) == Len(s) <= Len(t) /\ SubSeq(t, 1, Len(s)) = s

\* The five stages in their order, and those this run has entered.
StageOrder == <<"Guard", "Resolver", "Downloader", "Verifier", "Installer">>

StagesEntered == SelectSeq(trace, LAMBDA e : e \in Range(StageOrder))

\* The stage a run is in: the last of the seven steps it has entered.
StepsEntered == SelectSeq(trace, LAMBDA e : e \in Stages)

CurrentStage == IF StepsEntered = <<>> THEN "none" ELSE StepsEntered[Len(StepsEntered)]

\* The digest of the downloaded file as line 107 renders it.
DigestOfDownload == LowerHex(Sha256(tmp[tarball_path].bytes))

----------------------------------------------------------------------------
(* The properties. *)

\* C1: the Installer stage starts only after the Verifier has hashed the
\* downloaded file and found its digest equal to the selected artifact's
\* sha256; a run whose digest differs never enters the Installer, never
\* removes /usr/local/go and never unpacks.
InstallOnlyAfterVerified ==
    /\ (pc = "install" \/ "Installer" \in Range(trace)) =>
          /\ Before("hash tmp", "Installer") \/ (pc = "install" /\ "hash tmp" \in Range(trace))
          /\ tmp[tarball_path].exists => DigestOfDownload = release_info[1].sha256
    /\ err.kind = "IntegrityError" =>
          /\ pc = "failed"
          /\ DigestOfDownload # release_info[1].sha256
          /\ Range(trace) \cap {"Installer", "remove go", "unpack"} = {}

\* C1: a verified archive has replaced an older installation.
InstalledAfterVerified ==
    /\ pc = "message"
    /\ Before("hash tmp", "remove go")
    /\ Before("remove go", "unpack")

\* C2: the five stages are entered in their order, each at most once in a
\* run; an event happens only in a run that has not failed, and a failed run
\* ends with a failure status and does nothing more (only a new run follows).
StagesInOrderOnce ==
    /\ [](IsPrefix(StagesEntered, StageOrder))
    /\ [][trace' # trace /\ trace' # <<>> => pc \notin {"failed", "done"} /\ err = NoErr]_vars
    /\ [][pc = "failed" => ExitCode = 1 /\ pc' = "start" /\ trace' = <<>>]_vars

\* C2: a run has failed in its fourth stage.
FailedAtVerifier ==
    /\ pc = "failed"
    /\ StagesEntered = SubSeq(StageOrder, 1, 4)

\* C3: for each catalog and supported architecture the Resolver returns the
\* file at the first position, in catalog order and then in listed order, whose
\* os, arch and kind are linux, the mapped architecture and archive, and fails
\* with NotFoundError exactly when no position of the catalog matches.
ResolverReturnsFirstMatch ==
    pc # "resolve" =>
        LET arch      == IF hostArch = "x86_64" THEN "amd64" ELSE "arm64"
            positions == UNION {{<<i, j>> : j \in 1..Len(releases[i].files)} : i \in 1..Len(releases)}
            file(p)   == releases[p[1]].files[p[2]]
            matching  == {p \in positions : /\ file(p).os = "linux"
                                            /\ file(p).arch = arch
                                            /\ file(p).kind = "archive"}
            earlier(p, q) == p[1] < q[1] \/ (p[1] = q[1] /\ p[2] < q[2])
        IN  IF matching = {}
            THEN pc = "failed" /\ err.kind = "NotFoundError" /\ release_info = <<>>
            ELSE /\ pc = "download"
                 /\ \E p \in matching :
                      /\ \A q \in matching : ~earlier(q, p)
                      /\ release_info = <<file(p)>>

\* C3: the Resolver has passed over a file of another kind and returned the
\* archive of the older version, with a newer matching one later in the catalog.
ResolverSkippedAndChoseFirst ==
    /\ pc = "download"
    /\ Len(releases) = 2
    /\ Len(releases[1].files) = 2
    /\ releases[1].files[1].kind = "source"
    /\ release_info = <<releases[1].files[2]>>
    /\ release_info[1].version = "go1.r1"
    /\ Len(releases[2].files) = 1
    /\ releases[2].files[1].version = "go1.r2"
    /\ releases[2].files[1].arch = "amd64"
    /\ releases[2].files[1].kind = "archive"

\* C4: once the Verifier has compared, it has succeeded if and only if the
\* expected hash equals the file's digest up to the case of the letters, and
\* otherwise has failed with an IntegrityError carrying both hashes.
VerifyIgnoresCase ==
    (trace # <<>> /\ trace[Len(trace)] = "hash tmp") =>
        IF ToLower(release_info[1].sha256) = ToLower(DigestOfDownload)
        THEN pc = "install" /\ err = NoErr
        ELSE /\ pc = "failed"
             /\ err = [kind |-> "IntegrityError", expected |-> release_info[1].sha256,
                       calculated |-> DigestOfDownload]

NoSudoNoEffect ==
    /\ [](~sudo =>
             /\ pc \in {"start", "failed"}
             /\ trace = (IF pc = "start" THEN <<>> ELSE <<"Guard">>)
             /\ pc = "failed" => (err.kind = "PermissionError" /\ ExitCode = 1))
    /\ [][~sudo => (tmp' = tmp /\ goDir' = goDir)]_vars

\* C6: a run without SUDO_USER has failed, an installation being in place.
NoSudoFailed ==
    /\ ~sudo
    /\ pc = "failed"
    /\ err.kind = "PermissionError"
    /\ goDir.exists
    /\ goDir.files # {}

\* C7: after a successful install and before the archive is removed,
\* /usr/local/go holds exactly the archive's entries, whatever it held before
\* and however often the archive is installed.
InstallReplaces ==
    pc \in {"message", "cleanup"} =>
        LET bytes == tmp[tarball_path].bytes
        IN  /\ goDir.exists
            /\ goDir.files = {EntryName(bytes[i]) : i \in DOMAIN bytes}
            /\ \A i \in DOMAIN bytes : bytes[i] \in EntryBytes

\* C7: a second run has installed over an installation it had to remove.
InstalledTwice ==
    /\ pc = "message"
    /\ runs = 2
    /\ "remove go" \in Range(trace)
    /\ goDir.files = {"bin/go", "VERSION"}

\* C8: a temporary file disappears only in the orchestrator's cleanup step
\* after the Installer succeeded; a run that ends with exit code 0 has removed
\* its file, and a run that fails at the Downloader, Verifier or Installer
\* after creating it leaves it on disk.
TmpRemovedOnlyOnSuccess ==
    /\ [][\A fn \in Filenames : (tmp[fn].exists /\ ~tmp'[fn].exists) =>
              /\ pc = "cleanup" /\ pc' = "done"
              /\ fn = tarball_path
              /\ Before("unpack", "Message")]_vars
    /\ [](ExitCode = 0 => ~tmp[tarball_path].exists)
    /\ []((pc = "failed" /\ CurrentStage \in {"Downloader", "Verifier", "Installer"}
                         /\ "create tmp" \in Range(trace)) => tmp[tarball_path].exists)

\* C8: a run has ended with exit code 0, a file of an earlier run remaining.
SucceededAndRemoved ==
    /\ ExitCode = 0
    /\ "remove tmp" \in Range(trace)
    /\ \E fn \in Filenames : tmp[fn].exists

\* C9: /usr/local/go changes only in a step of the Installer: no step of the
\* Guard, Resolver, Downloader or Verifier, nor the message, the cleanup or
\* the start of a run, changes it.
OnlyInstallerWritesGoDir ==
    [][goDir' # goDir => pc = "install" /\ CurrentStage = "Verifier"]_vars

\* C9: a run has failed at the Verifier with the old installation in place.
FailedBeforeInstallKeepsGoDir ==
    /\ pc = "failed"
    /\ CurrentStage = "Verifier"
    /\ runs = 1
    /\ goDir = DirOf({"old"})

\* C10 as stated: the final message is shown only after the temporary file has
\* been removed, and a run that shows it ends with exit code 0.
MessageAfterCleanup ==
    "Message" \in Range(trace) =>
        /\ ~tmp[tarball_path].exists
        /\ pc \in {"done", "failed"} => ExitCode = 0

\* C10 as amended: the final message follows the Installer's success and
\* precedes the cleanup, so it is shown while the temporary file still exists;
\* a run that ends with exit code 0 has shown the message and then removed the
\* file, and a run whose cleanup fails has shown the message and ends with a
\* failure status.
MessageBeforeCleanup ==
    /\ "Message" \in Range(trace) => Before("unpack", "Message")
    /\ "Cleanup" \in Range(trace) => Before("Message", "Cleanup")
    /\ pc = "cleanup" => "Message" \in Range(trace) /\ tmp[tarball_path].exists
    /\ ExitCode = 0 => Before("Message", "remove tmp") /\ ~tmp[tarball_path].exists
    /\ (pc = "failed" /\ CurrentStage = "Cleanup") =>
          "Message" \in Range(trace) /\ tmp[tarball_path].exists /\ ExitCode = 1

\* C10: the message has been shown and the cleanup has failed.
MessageShownCleanupFailed ==
    /\ pc = "failed"
    /\ CurrentStage = "Cleanup"
    /\ "Message" \in Range(trace)

====
